---------------------------- MODULE Spec2Model ----------------------------
(***************************************************************************)
(* Model of london_property_dashboard.py (the extended buy-vs-rent script  *)
(* under src/Downloads).  The script is a straight-line Streamlit program: *)
(* every widget call returns one input value, the sections run top to      *)
(* bottom, and the two loops (amortization, rent) run one iteration per    *)
(* step of the model.                                                      *)
(*                                                                         *)
(* Numbers.  The script computes in Python floats.  The model keeps        *)
(*   - money in pence (integers),                                          *)
(*   - percentages as hundredths of a percent (4.25% is 425),              *)
(*   - dimensionless factors (monthly rate, growth factor, powers) as      *)
(*     multiples of 1/RateScale,                                           *)
(* and, like float arithmetic, rounds the result of every multiplication   *)
(* and division to the nearest representable value.  Additions and         *)
(* subtractions are exact.                                                 *)
(***************************************************************************)
EXTENDS Integers, Sequences, FiniteSets, TLC

VARIABLES
    pc,                     \* position of the script run
    exception,              \* "none", or the exception that ended the run
    house_price, deposit, base_interest_rate, term_years,
    loan_amount, n_payments, base_monthly_payment,
    rent_monthly, rent_growth,
    remortgage_cost, base_transaction_fees, stamp_duty,
    renovation_input, renovation_costs, renovation_uplift,
    annual_maintenance_rate, annual_maintenance_cost,
    use_risk_scenario, risk_scenario,
    appreciation_rate_adj, risk_interest_rate,
    monthly_rate, monthly_payment,
    sale_year, appreciation_rate, sale_fee_rate,
    sale_value, sale_fees,
    principal_remaining, total_interest_paid, months, period,
    interest_month, principal_payment,
    total_mortgage_paid, actual_remortgages, transaction_fees,
    total_maintenance_cost, buying_costs, gross_proceeds,
    net_cash_from_sale, roi, irr_before_tax, irr_display,
    alt_bound, alt_investment_return,
    total_rent_paid, current_rent, monthly_return_rate,
    future_value_cashflow_difference, year, month,
    average_rent_monthly, deposit_future_value, renter_net_worth,
    difference,
    call, last_call         \* calculate_stamp_duty called on its own

loanVars == <<house_price, deposit, base_interest_rate, term_years,
              loan_amount, n_payments, base_monthly_payment>>
rentInVars == <<rent_monthly, rent_growth>>
feeVars == <<remortgage_cost, base_transaction_fees, stamp_duty,
             renovation_input, renovation_uplift>>
maintVars == <<annual_maintenance_rate, annual_maintenance_cost>>
scenVars == <<use_risk_scenario, risk_scenario, appreciation_rate_adj,
              risk_interest_rate>>
payVars == <<monthly_rate, monthly_payment>>
saleVars == <<sale_year, appreciation_rate, sale_fee_rate, sale_value,
              sale_fees>>
amortVars == <<principal_remaining, total_interest_paid, months, period,
               interest_month, principal_payment>>
costVars == <<total_mortgage_paid, actual_remortgages, transaction_fees,
              total_maintenance_cost, buying_costs, gross_proceeds,
              net_cash_from_sale, roi>>
irrVars == <<irr_before_tax, irr_display>>
altVars == <<alt_bound, alt_investment_return>>
rentVars == <<total_rent_paid, current_rent, monthly_return_rate,
              future_value_cashflow_difference, year, month>>
worthVars == <<average_rent_monthly, deposit_future_value,
               renter_net_worth, difference>>
dutyVars == <<call, last_call>>

vars == <<pc, exception, loanVars, rentInVars, feeVars, renovation_costs,
          maintVars, scenVars, payVars, saleVars, amortVars, costVars,
          irrVars, altVars, rentVars, worthVars, dutyVars>>

---------------------------------------------------------------------------
(* Bounds of the model.                                                    *)

\* term_years ranges over MinTermYears..MaxTermYears (the slider allows 40)
MaxTermYears == 6
\* sale_year ranges over 1..MaxSaleYear (the slider allows 50)
MaxSaleYear == 11

---------------------------------------------------------------------------
(* Arithmetic.                                                             *)

\* one unit of a dimensionless factor is 1/RateScale; 12,000,000 makes
\* (percent / 100 / 12) a whole number of units for every slider value
RateScale == 12 * 1000000

Pence(pounds) == pounds * 100

Max(a, b) == IF a >= b THEN a ELSE b
Min(a, b) == IF a <= b THEN a ELSE b
Abs(a) == IF a < 0 THEN 0 - a ELSE a

\* Exact long multiplication and division on <<quotient, remainder>> pairs
\* modulo c, so that no intermediate value leaves the machine integers:
\* twice a pair, and a pair plus <<aq, ar>>
Twice(h, c) ==
    IF h[2] >= c - h[2] THEN <<2 * h[1] + 1, h[2] - (c - h[2])>>
    ELSE <<2 * h[1], 2 * h[2]>>

Plus(h, aq, ar, c) ==
    IF h[2] >= c - ar THEN <<h[1] + aq + 1, h[2] - (c - ar)>>
    ELSE <<h[1] + aq, h[2] + ar>>

Shift(h, bit, aq, ar, c) ==
    IF bit = 1 THEN Plus(Twice(h, c), aq, ar, c) ELSE Twice(h, c)

\* <<q, r>> with (aq * c + ar) * b = q * c + r and 0 <= r < c, for b >= 0,
\* four binary digits of b at a time
RECURSIVE MulDivRem(_, _, _, _)
MulDivRem(aq, ar, b, c) ==
    IF b = 0 THEN <<0, 0>>
    ELSE LET h == MulDivRem(aq, ar, b \div 16, c)
             d == b % 16
         IN  CASE h[2] >= 0 ->
                  Shift(Shift(Shift(Shift(h, d \div 8, aq, ar, c),
                                    (d \div 4) % 2, aq, ar, c),
                              (d \div 2) % 2, aq, ar, c),
                        d % 2, aq, ar, c)

\* a * b / c rounded to the nearest integer (ties up), a, b >= 0 and c > 0
MulDivNat(a, b, c) ==
    LET x == Max(a, b)
        y == Min(a, b)
        h == MulDivRem(x \div c, x % c, y, c)
    IN  IF h[2] >= c - h[2] THEN h[1] + 1 ELSE h[1]

\* the same for a of either sign (rounding is symmetric about zero);
\* dividing by zero is an error
MulDiv(a, b, c) ==
    CASE c # 0 /\ b >= 0 /\ a < 0 -> 0 - MulDivNat(0 - a, b, c)
      [] c # 0 /\ b >= 0 /\ a >= 0 -> MulDivNat(a, b, c)

\* x * f for a factor f, and x / f
MulF(x, f) == MulDiv(x, f, RateScale)
DivF(x, f) == MulDiv(x, RateScale, f)

\* f ** n by repeated squaring, every product rounded
RECURSIVE PowF(_, _)
PowF(f, n) ==
    IF n = 0 THEN RateScale
    ELSE LET h == PowF(f, n \div 2)
             sq == MulF(h, h)
         IN  IF n % 2 = 0 THEN sq ELSE MulF(sq, f)

\* percent / 100 as a factor, and percent / 100 / 12
PctF(pct) == pct * (RateScale \div 10000)
MonthlyF(pct) == pct * (RateScale \div 120000)

---------------------------------------------------------------------------
(* calculate_stamp_duty                                                    *)

\* float('inf'): no price exceeds it
Infinity == 2147483647

\* (upper limit, rate in percent)
bands == << <<Pence(125000), 0>>, <<Pence(250000), 2>>, <<Pence(925000), 5>>,
            <<Pence(1500000), 10>>, <<Infinity, 12>> >>

\* taxed_amount * rate, the rate being percent / 100
BandTax(taxed_amount, rate) == MulDiv(taxed_amount, rate, 100)

\* the for loop from band i on
RECURSIVE StampDutyLoop(_, _, _, _)
StampDutyLoop(price, i, lower_limit, tax) ==
    IF i > Len(bands) THEN tax
    ELSE LET upper_limit == bands[i][1]
             rate == bands[i][2]
         IN  IF price > upper_limit
             THEN StampDutyLoop(price, i + 1, upper_limit,
                                tax + BandTax(upper_limit - lower_limit, rate))
             ELSE tax + BandTax(price - lower_limit, rate)

\* the last band's tax assigned instead of added
RECURSIVE StampDutyLoopAssign(_, _, _, _)
StampDutyLoopAssign(price, i, lower_limit, tax) ==
    IF i > Len(bands) THEN tax
    ELSE LET upper_limit == bands[i][1]
             rate == bands[i][2]
         IN  IF price > upper_limit
             THEN StampDutyLoopAssign(price, i + 1, upper_limit,
                                tax + BandTax(upper_limit - lower_limit, rate))
             ELSE BandTax(price - lower_limit, rate)

calculate_stamp_duty_assign(price) == StampDutyLoopAssign(price, 1, 0, 0)

\* the whole price taxed at the rate of the band it falls in
RECURSIVE StampDutySlab(_, _)
StampDutySlab(price, i) ==
    IF price > bands[i][1] THEN StampDutySlab(price, i + 1)
    ELSE BandTax(price, bands[i][2])

calculate_stamp_duty_slab(price) == StampDutySlab(price, 1)

calculate_stamp_duty(price) == StampDutyLoop(price, 1, 0, 0)

---------------------------------------------------------------------------
(* numpy_financial, as the script calls it                                 *)

\* npf.pmt(rate, nper, pv) with fv = 0 and payments at the end of a period:
\*   temp = (1 + rate) ** nper;  fact = (temp - 1) / rate  (nper if rate = 0)
\*   pmt  = -(pv * temp) / fact
npf_pmt(rate, nper, pv) ==
    LET temp == PowF(RateScale + rate, nper)
        fact == IF rate = 0 THEN nper * RateScale
                ELSE DivF(temp - RateScale, rate)
    IN  0 - MulDiv(MulF(pv, temp), RateScale, fact)

\* npf.irr on [-outlay, 0, ..., 0, proceeds] with outlay > 0: the rate with
\* outlay * (1 + rate) ** n = proceeds; nan when there is none.  With
\* proceeds = 0 the answer depends on the library version (nan, or -1.0).
\* The size of the rate is not modelled, only which kind of value it is.
npf_irr(values) ==
    LET proceeds == values[Len(values)]
    IN  IF proceeds > 0 THEN {"number"}
        ELSE IF proceeds < 0 THEN {"nan"}
        ELSE {"nan", "number"}

\* f"{irr_before_tax*100:.2f}%" if irr_before_tax is not None else "N/A"
IrrDisplay(irr) ==
    IF irr = "None" THEN "N/A"
    ELSE IF irr = "nan" THEN "nan%"
    ELSE "number%"

---------------------------------------------------------------------------
(* The inputs the widgets can return, within the bounds of the model.      *)

\* st.slider("Loan Term (years)", 5, 40, 25)
MinTermYears == 5

HousePrices == {Pence(100000), Pence(600000)}
Deposits(price) == {0, Pence(10000), price}
BaseRates == {50, 425, 1000}
TermYears == MinTermYears..MaxTermYears
Rents == {Pence(2250)}
RentGrowths == {0, 300}
RemortgageCosts == {Pence(1500)}
BaseFees == {Pence(7500)}
RenovationCosts == {0}
RenovationUplifts == {0}
MaintenanceRates == {50}
SaleYears == 1..MaxSaleYear
AppreciationRates == {-500, 260}
SaleFeeRates == {500}
AltReturns == {0, 500}

scenarios == << "Base Case (steady market)",
                "Interest Rate Spike / Asset Crash",
                "Interest Rates Drop / Asset Boom",
                "Major Structural Repairs" >>

\* Added by "Major Structural Repairs"
StructuralRepairCost == 50000

---------------------------------------------------------------------------
(* The script.                                                             *)

Init ==
    /\ pc = "loan_inputs"
    /\ exception = "none"
    /\ house_price = 0 /\ deposit = 0 /\ base_interest_rate = 0
    /\ term_years = 0 /\ loan_amount = 0 /\ n_payments = 0
    /\ base_monthly_payment = 0
    /\ rent_monthly = 0 /\ rent_growth = 0
    /\ remortgage_cost = 0 /\ base_transaction_fees = 0 /\ stamp_duty = 0
    /\ renovation_input = 0 /\ renovation_costs = 0 /\ renovation_uplift = 0
    /\ annual_maintenance_rate = 0 /\ annual_maintenance_cost = 0
    /\ use_risk_scenario = FALSE /\ risk_scenario = ""
    /\ appreciation_rate_adj = 0 /\ risk_interest_rate = 0
    /\ monthly_rate = 0 /\ monthly_payment = 0
    /\ sale_year = 0 /\ appreciation_rate = 0 /\ sale_fee_rate = 0
    /\ sale_value = 0 /\ sale_fees = 0
    /\ principal_remaining = 0 /\ total_interest_paid = 0 /\ months = 0
    /\ period = 0 /\ interest_month = 0 /\ principal_payment = 0
    /\ total_mortgage_paid = 0 /\ actual_remortgages = 0
    /\ transaction_fees = 0 /\ total_maintenance_cost = 0
    /\ buying_costs = 0 /\ gross_proceeds = 0 /\ net_cash_from_sale = 0
    /\ roi = 0 /\ irr_before_tax = "None" /\ irr_display = ""
    /\ alt_bound = FALSE /\ alt_investment_return = 0
    /\ total_rent_paid = 0 /\ current_rent = 0 /\ monthly_return_rate = 0
    /\ future_value_cashflow_difference = 0 /\ year = 0 /\ month = 0
    /\ average_rent_monthly = 0 /\ deposit_future_value = 0
    /\ renter_net_worth = 0 /\ difference = 0
    /\ call = [called |-> FALSE, price |-> 0, tax |-> 0]
    /\ last_call = [called |-> FALSE, price |-> 0, tax |-> 0]

\* npf.pmt(...) if loan_amount > 0 else 0
PaymentFor(rate, nper, loan) ==
    IF loan > 0 THEN npf_pmt(rate, nper, 0 - loan) ELSE 0

\* lines 49-64: property and loan sliders, the estimated payment
LoanInputs ==
    /\ pc = "loan_inputs"
    /\ \E hp \in HousePrices, r \in BaseRates, t \in TermYears :
         \E d \in Deposits(hp) :
            /\ house_price' = hp
            /\ deposit' = d
            /\ base_interest_rate' = r
            /\ term_years' = t
            /\ loan_amount' = hp - d
            /\ n_payments' = t * 12
            /\ base_monthly_payment' =
                   PaymentFor(MonthlyF(r), t * 12, hp - d)
    /\ pc' = "rent_inputs"
    /\ UNCHANGED <<exception, rentInVars, feeVars, renovation_costs,
                   maintVars, scenVars, payVars, saleVars, amortVars,
                   costVars, irrVars, altVars, rentVars, worthVars,
                   dutyVars>>

\* lines 69-70: the rent sliders
RentInputs ==
    /\ pc = "rent_inputs"
    /\ rent_monthly' \in Rents
    /\ rent_growth' \in RentGrowths
    /\ pc' = "fee_inputs"
    /\ UNCHANGED <<exception, loanVars, feeVars, renovation_costs,
                   maintVars, scenVars, payVars, saleVars, amortVars,
                   costVars, irrVars, altVars, rentVars, worthVars,
                   dutyVars>>

\* lines 75-82: fees, stamp duty, renovation
FeeInputs ==
    /\ pc = "fee_inputs"
    /\ remortgage_cost' \in RemortgageCosts
    /\ base_transaction_fees' \in BaseFees
    /\ stamp_duty' = calculate_stamp_duty(house_price)
    /\ renovation_input' \in RenovationCosts
    /\ renovation_costs' = renovation_input'
    /\ renovation_uplift' \in RenovationUplifts
    /\ pc' = "maintenance_inputs"
    /\ UNCHANGED <<exception, loanVars, rentInVars, maintVars, scenVars,
                   payVars, saleVars, amortVars, costVars, irrVars, altVars,
                   rentVars, worthVars, dutyVars>>

\* lines 87-88: annual ownership costs
MaintenanceInputs ==
    /\ pc = "maintenance_inputs"
    /\ annual_maintenance_rate' \in MaintenanceRates
    /\ annual_maintenance_cost' =
           MulF(house_price, PctF(annual_maintenance_rate'))
    /\ pc' = "scenario"
    /\ UNCHANGED <<exception, loanVars, rentInVars, feeVars,
                   renovation_costs, scenVars, payVars, saleVars, amortVars,
                   costVars, irrVars, altVars, rentVars, worthVars,
                   dutyVars>>

Range(f) == {f[i] : i \in DOMAIN f}

\* lines 118-135: the adjustment each scenario makes.  "off" stands for the
\* scenario checkbox left unticked.
AppreciationAdj(scenario) ==
    IF scenario = "Interest Rate Spike / Asset Crash" THEN -500
    ELSE IF scenario = "Interest Rates Drop / Asset Boom" THEN 300
    ELSE 0

\* max(0.5, base_interest_rate - 1) without the max
RiskInterestRateNoFloor(scenario, base) ==
    IF scenario = "Interest Rate Spike / Asset Crash" THEN base + 200
    ELSE IF scenario = "Interest Rates Drop / Asset Boom" THEN base - 100
    ELSE base

RiskInterestRate(scenario, base) ==
    IF scenario = "Interest Rate Spike / Asset Crash" THEN base + 200
    ELSE IF scenario = "Interest Rates Drop / Asset Boom"
         THEN Max(50, base - 100)
    ELSE base

RenovationAfter(scenario, costs) ==
    IF scenario = "Major Structural Repairs"
    THEN costs + Pence(StructuralRepairCost)
    ELSE costs

\* lines 93-135: the scenario checkbox, the wheel or the select box, and
\* the adjustment
Scenario ==
    /\ pc = "scenario"
    /\ \E use \in BOOLEAN, spin_wheel \in BOOLEAN :
         \E chosen \in IF ~use THEN {"off"}
                       ELSE IF spin_wheel THEN Range(scenarios)
                       ELSE Range(scenarios) :
            /\ use_risk_scenario' = use
            /\ risk_scenario' = IF use THEN chosen ELSE ""
            /\ appreciation_rate_adj' = AppreciationAdj(chosen)
            /\ risk_interest_rate' =
                   RiskInterestRate(chosen, base_interest_rate)
            /\ renovation_costs' = RenovationAfter(chosen, renovation_costs)
    /\ pc' = "payment"
    /\ UNCHANGED <<exception, loanVars, rentInVars, feeVars, maintVars,
                   payVars, saleVars, amortVars, costVars, irrVars, altVars,
                   rentVars, worthVars, dutyVars>>

\* lines 138-140: the payment at the scenario's rate
Payment ==
    /\ pc = "payment"
    /\ monthly_rate' = MonthlyF(risk_interest_rate)
    /\ monthly_payment' = PaymentFor(monthly_rate', n_payments, loan_amount)
    /\ pc' = "sale_inputs"
    /\ UNCHANGED <<exception, loanVars, rentInVars, feeVars,
                   renovation_costs, maintVars, scenVars, saleVars,
                   amortVars, costVars, irrVars, altVars, rentVars,
                   worthVars, dutyVars>>

\* house_price * ((1 + rate / 100) ** years), then * (1 + uplift / 100)
SaleValue(price, rate, years, uplift) ==
    MulF(MulF(price, PowF(RateScale + PctF(rate), years)),
         RateScale + PctF(uplift))

\* lines 145-153: sale year, appreciation and sale fee; the sale value
SaleInputs ==
    /\ pc = "sale_inputs"
    /\ sale_year' \in SaleYears
    /\ appreciation_rate' \in AppreciationRates
    /\ sale_fee_rate' \in SaleFeeRates
    /\ sale_value' = SaleValue(house_price,
                               appreciation_rate' + appreciation_rate_adj,
                               sale_year', renovation_uplift)
    /\ sale_fees' = MulF(sale_value', PctF(sale_fee_rate'))
    /\ pc' = "amort_init"
    /\ UNCHANGED <<exception, loanVars, rentInVars, feeVars,
                   renovation_costs, maintVars, scenVars, payVars,
                   amortVars, costVars, irrVars, altVars, rentVars,
                   worthVars, dutyVars>>

\* lines 156-158
AmortInit ==
    /\ pc = "amort_init"
    /\ principal_remaining' = loan_amount
    /\ total_interest_paid' = 0
    /\ months' = Min(sale_year * 12, n_payments)
    /\ period' = 0
    /\ pc' = "amort_loop"
    /\ UNCHANGED <<interest_month, principal_payment>>
    /\ UNCHANGED <<exception, loanVars, rentInVars, feeVars,
                   renovation_costs, maintVars, scenVars, payVars, saleVars,
                   costVars, irrVars, altVars, rentVars, worthVars,
                   dutyVars>>

\* lines 165-166 without the assignment of 0
ClampNone(principal) == principal

\* lines 165-166: if principal_remaining <= 0: principal_remaining = 0
Clamp(principal) == IF principal <= 0 THEN 0 ELSE principal

\* line 161
InterestOn(principal, rate) == MulF(principal, rate)

\* lines 160-167: one iteration of the amortization loop; the break leaves
\* the loop at once
AmortStep ==
    /\ pc = "amort_loop"
    /\ period < months
    /\ interest_month' = InterestOn(principal_remaining, monthly_rate)
    /\ principal_payment' = monthly_payment - interest_month'
    /\ total_interest_paid' = total_interest_paid + interest_month'
    /\ principal_remaining' =
           Clamp(principal_remaining - principal_payment')
    /\ period' = period + 1
    /\ pc' = IF principal_remaining - principal_payment' <= 0
             THEN "costs" ELSE "amort_loop"
    /\ UNCHANGED months
    /\ UNCHANGED <<exception, loanVars, rentInVars, feeVars,
                   renovation_costs, maintVars, scenVars, payVars, saleVars,
                   costVars, irrVars, altVars, rentVars, worthVars,
                   dutyVars>>

\* line 160: range(months) is exhausted
AmortExhausted ==
    /\ pc = "amort_loop"
    /\ period = months
    /\ pc' = "costs"
    /\ UNCHANGED <<exception, loanVars, rentInVars, feeVars,
                   renovation_costs, maintVars, scenVars, payVars, saleVars,
                   amortVars, costVars, irrVars, altVars, rentVars,
                   worthVars, dutyVars>>

\* line 172: max(0, (sale_year - 1) // 5) with // 4
RemortgagesEveryFour(years) == Max(0, (years - 1) \div 4)

\* line 172
Remortgages(years) == Max(0, (years - 1) \div 5)

\* line 188, in hundredths of a percent
Roi(net_cash, dep) ==
    IF dep > 0 THEN MulDiv(net_cash - dep, 10000, dep) ELSE 0

\* lines 169-188: the buying costs, the proceeds, the return on the deposit
Costs ==
    /\ pc = "costs"
    /\ total_mortgage_paid' = monthly_payment * months
    /\ actual_remortgages' = Remortgages(sale_year)
    /\ transaction_fees' =
           base_transaction_fees + actual_remortgages' * remortgage_cost
    /\ total_maintenance_cost' = annual_maintenance_cost * sale_year
    /\ buying_costs' = stamp_duty + renovation_costs + transaction_fees'
                       + total_maintenance_cost' + total_interest_paid
    /\ gross_proceeds' = sale_value - sale_fees - principal_remaining
    /\ net_cash_from_sale' =
           gross_proceeds' - (stamp_duty + renovation_costs
                              + transaction_fees' + total_maintenance_cost')
    /\ roi' = Roi(net_cash_from_sale', deposit)
    /\ pc' = "irr"
    /\ UNCHANGED <<exception, loanVars, rentInVars, feeVars,
                   renovation_costs, maintVars, scenVars, payVars, saleVars,
                   amortVars, irrVars, altVars, rentVars, worthVars,
                   dutyVars>>

\* [-deposit - (buying_costs - total_interest_paid)] + [0] * (sale_year - 1)
\* + [gross_proceeds]
CashFlows ==
    <<0 - deposit - (buying_costs - total_interest_paid)>>
    \o [i \in 1..(sale_year - 1) |-> 0]
    \o <<gross_proceeds>>

\* lines 190-195
Irr ==
    /\ pc = "irr"
    /\ irr_before_tax' \in IF deposit > 0 THEN npf_irr(CashFlows)
                           ELSE {"None"}
    /\ irr_display' = IrrDisplay(irr_before_tax')
    /\ pc' = "rent_init"
    /\ UNCHANGED <<exception, loanVars, rentInVars, feeVars,
                   renovation_costs, maintVars, scenVars, payVars, saleVars,
                   amortVars, costVars, altVars, rentVars, worthVars,
                   dutyVars>>

\* lines 199-201: alt_investment_return is read, and no line of the script
\* assigns it: the read raises NameError and the run ends
RentInitRaises ==
    /\ pc = "rent_init"
    /\ ~alt_bound
    /\ total_rent_paid' = 0
    /\ current_rent' = rent_monthly
    /\ exception' = "NameError"
    /\ pc' = "raised"
    /\ UNCHANGED <<monthly_return_rate, future_value_cashflow_difference,
                   year, month>>
    /\ UNCHANGED <<loanVars, rentInVars, feeVars, renovation_costs,
                   maintVars, scenVars, payVars, saleVars, amortVars,
                   costVars, irrVars, altVars, worthVars, dutyVars>>

\* lines 199-204 when alt_investment_return is bound
RentInit ==
    /\ pc = "rent_init"
    /\ alt_bound
    /\ total_rent_paid' = 0
    /\ current_rent' = rent_monthly
    /\ monthly_return_rate' = MonthlyF(alt_investment_return)
    /\ future_value_cashflow_difference' = 0
    /\ year' = 0
    /\ month' = 0
    /\ pc' = "rent_loop"
    /\ UNCHANGED <<exception, loanVars, rentInVars, feeVars,
                   renovation_costs, maintVars, scenVars, payVars, saleVars,
                   amortVars, costVars, irrVars, altVars, worthVars,
                   dutyVars>>

\* lines 212-226: the balance after one more month
CompoundDifference(balance, payment, rent, rate) ==
    LET monthly_difference == payment - rent
    IN  IF monthly_difference > 0
        THEN MulF(balance + monthly_difference, RateScale + rate)
        ELSE MulF(balance - Abs(monthly_difference), RateScale + rate)

\* lines 207-229: one month of the rent loop
RentMonth ==
    /\ pc = "rent_loop"
    /\ year < sale_year
    /\ month < 12
    /\ future_value_cashflow_difference' =
           CompoundDifference(future_value_cashflow_difference,
                              monthly_payment, current_rent,
                              monthly_return_rate)
    /\ total_rent_paid' = total_rent_paid + current_rent
    /\ month' = month + 1
    /\ UNCHANGED <<current_rent, monthly_return_rate, year>>
    /\ UNCHANGED <<pc, exception, loanVars, rentInVars, feeVars,
                   renovation_costs, maintVars, scenVars, payVars, saleVars,
                   amortVars, costVars, irrVars, altVars, worthVars,
                   dutyVars>>

\* line 231: the rent grows once the year's twelve months are charged
RentYearEnd ==
    /\ pc = "rent_loop"
    /\ year < sale_year
    /\ month = 12
    /\ current_rent' = MulF(current_rent, RateScale + PctF(rent_growth))
    /\ year' = year + 1
    /\ month' = 0
    /\ UNCHANGED <<total_rent_paid, monthly_return_rate,
                   future_value_cashflow_difference>>
    /\ UNCHANGED <<pc, exception, loanVars, rentInVars, feeVars,
                   renovation_costs, maintVars, scenVars, payVars, saleVars,
                   amortVars, costVars, irrVars, altVars, worthVars,
                   dutyVars>>

\* lines 233-243: the renter's net worth and the difference
NetWorth ==
    /\ pc = "rent_loop"
    /\ year = sale_year
    /\ average_rent_monthly' = MulDiv(total_rent_paid, 1, sale_year * 12)
    /\ deposit_future_value' =
           MulF(deposit, PowF(RateScale + PctF(alt_investment_return),
                              sale_year))
    /\ renter_net_worth' =
           deposit_future_value' + future_value_cashflow_difference
    /\ difference' = net_cash_from_sale - renter_net_worth'
    /\ pc' = "done"
    /\ UNCHANGED <<exception, loanVars, rentInVars, feeVars,
                   renovation_costs, maintVars, scenVars, payVars, saleVars,
                   amortVars, costVars, irrVars, altVars, rentVars,
                   dutyVars>>

Next ==
    \/ LoanInputs
    \/ RentInputs
    \/ FeeInputs
    \/ MaintenanceInputs
    \/ Scenario
    \/ Payment
    \/ SaleInputs
    \/ AmortInit
    \/ AmortStep
    \/ AmortExhausted
    \/ Costs
    \/ Irr
    \/ RentInitRaises

Spec == Init /\ [][Next]_vars

\* The script as it would run were alt_investment_return given a value
\* before line 201 (a slider like the others): the rent loop and the net
\* worth are then reached.
InitSupplied ==
    \E r \in AltReturns :
        /\ pc = "loan_inputs"
        /\ exception = "none"
        /\ house_price = 0 /\ deposit = 0 /\ base_interest_rate = 0
        /\ term_years = 0 /\ loan_amount = 0 /\ n_payments = 0
        /\ base_monthly_payment = 0
        /\ rent_monthly = 0 /\ rent_growth = 0
        /\ remortgage_cost = 0 /\ base_transaction_fees = 0
        /\ stamp_duty = 0
        /\ renovation_input = 0 /\ renovation_costs = 0
        /\ renovation_uplift = 0
        /\ annual_maintenance_rate = 0 /\ annual_maintenance_cost = 0
        /\ use_risk_scenario = FALSE /\ risk_scenario = ""
        /\ appreciation_rate_adj = 0 /\ risk_interest_rate = 0
        /\ monthly_rate = 0 /\ monthly_payment = 0
        /\ sale_year = 0 /\ appreciation_rate = 0 /\ sale_fee_rate = 0
        /\ sale_value = 0 /\ sale_fees = 0
        /\ principal_remaining = 0 /\ total_interest_paid = 0
        /\ months = 0
        /\ period = 0 /\ interest_month = 0 /\ principal_payment = 0
        /\ total_mortgage_paid = 0 /\ actual_remortgages = 0
        /\ transaction_fees = 0 /\ total_maintenance_cost = 0
        /\ buying_costs = 0 /\ gross_proceeds = 0 /\ net_cash_from_sale = 0
        /\ roi = 0 /\ irr_before_tax = "None" /\ irr_display = ""
        /\ alt_bound = TRUE /\ alt_investment_return = r
        /\ total_rent_paid = 0 /\ current_rent = 0
        /\ monthly_return_rate = 0
        /\ future_value_cashflow_difference = 0 /\ year = 0 /\ month = 0
        /\ average_rent_monthly = 0 /\ deposit_future_value = 0
        /\ renter_net_worth = 0 /\ difference = 0
        /\ call = [called |-> FALSE, price |-> 0, tax |-> 0]
        /\ last_call = [called |-> FALSE, price |-> 0, tax |-> 0]

NextSupplied ==
    \/ LoanInputs
    \/ RentInputs
    \/ FeeInputs
    \/ MaintenanceInputs
    \/ Scenario
    \/ Payment
    \/ SaleInputs
    \/ AmortInit
    \/ AmortStep
    \/ AmortExhausted
    \/ Costs
    \/ Irr
    \/ RentInit
    \/ RentMonth
    \/ RentYearEnd
    \/ NetWorth

SpecSupplied == InitSupplied /\ [][NextSupplied]_vars

---------------------------------------------------------------------------
(* calculate_stamp_duty on its own: any price, one call after another.     *)

DutyPrices ==
    {Pence(-50000), -1, 0, 1, Pence(100000),
     Pence(125000) - 1, Pence(125000), Pence(125000) + 1, Pence(125001),
     Pence(250000) - 1, Pence(250000), Pence(250000) + 1,
     Pence(600000),
     Pence(925000) - 1, Pence(925000), Pence(925000) + 1, Pence(925001),
     Pence(1500000) - 1, Pence(1500000), Pence(1500000) + 1,
     Pence(2000000)}

InitDuty ==
    /\ pc = "stamp_duty"
    /\ exception = "none"
    /\ house_price = 0 /\ deposit = 0 /\ base_interest_rate = 0
    /\ term_years = 0 /\ loan_amount = 0 /\ n_payments = 0
    /\ base_monthly_payment = 0
    /\ rent_monthly = 0 /\ rent_growth = 0
    /\ remortgage_cost = 0 /\ base_transaction_fees = 0 /\ stamp_duty = 0
    /\ renovation_input = 0 /\ renovation_costs = 0 /\ renovation_uplift = 0
    /\ annual_maintenance_rate = 0 /\ annual_maintenance_cost = 0
    /\ use_risk_scenario = FALSE /\ risk_scenario = ""
    /\ appreciation_rate_adj = 0 /\ risk_interest_rate = 0
    /\ monthly_rate = 0 /\ monthly_payment = 0
    /\ sale_year = 0 /\ appreciation_rate = 0 /\ sale_fee_rate = 0
    /\ sale_value = 0 /\ sale_fees = 0
    /\ principal_remaining = 0 /\ total_interest_paid = 0 /\ months = 0
    /\ period = 0 /\ interest_month = 0 /\ principal_payment = 0
    /\ total_mortgage_paid = 0 /\ actual_remortgages = 0
    /\ transaction_fees = 0 /\ total_maintenance_cost = 0
    /\ buying_costs = 0 /\ gross_proceeds = 0 /\ net_cash_from_sale = 0
    /\ roi = 0 /\ irr_before_tax = "None" /\ irr_display = ""
    /\ alt_bound = FALSE /\ alt_investment_return = 0
    /\ total_rent_paid = 0 /\ current_rent = 0 /\ monthly_return_rate = 0
    /\ future_value_cashflow_difference = 0 /\ year = 0 /\ month = 0
    /\ average_rent_monthly = 0 /\ deposit_future_value = 0
    /\ renter_net_worth = 0 /\ difference = 0
    /\ call = [called |-> FALSE, price |-> 0, tax |-> 0]
    /\ last_call = [called |-> FALSE, price |-> 0, tax |-> 0]

\* one call of calculate_stamp_duty; the call before it is kept
CallStampDuty ==
    /\ pc = "stamp_duty"
    /\ \E price \in DutyPrices :
         call' = [called |-> TRUE, price |-> price,
                  tax |-> calculate_stamp_duty(price)]
    /\ last_call' = call
    /\ UNCHANGED <<pc, exception, loanVars, rentInVars, feeVars,
                   renovation_costs, maintVars, scenVars, payVars, saleVars,
                   amortVars, costVars, irrVars, altVars, rentVars,
                   worthVars>>

NextDuty == CallStampDuty

SpecDuty == InitDuty /\ [][NextDuty]_vars

---------------------------------------------------------------------------
(* Properties of the script run.                                           *)

Spike == "Interest Rate Spike / Asset Crash"
Drop == "Interest Rates Drop / Asset Boom"
Structural == "Major Structural Repairs"

\* the scenario in force: "off" when the checkbox is not ticked
Selected == IF use_risk_scenario THEN risk_scenario ELSE "off"

ScenarioApplied ==
    pc \notin {"loan_inputs", "rent_inputs", "fee_inputs",
               "maintenance_inputs", "scenario"}
AmortStarted == ScenarioApplied /\ pc \notin {"payment", "sale_inputs",
                                              "amort_init"}
AmortEnded == AmortStarted /\ pc # "amort_loop"
CostsDone == AmortEnded /\ pc # "costs"
IrrDone == CostsDone /\ pc # "irr"
Halted == pc \in {"raised", "done"}

\* C2: the adjustment is the scenario's row of the table (appreciation
\* delta, effective rate, extra renovation cost), a function of the
\* selection and the base rate alone, and the effective rate is never
\* below 0.5%
C2_ScenarioAdjustment ==
    ScenarioApplied =>
      LET adjustment == <<appreciation_rate_adj, risk_interest_rate,
                          renovation_costs - renovation_input>>
      IN  /\ Selected \in {"off", scenarios[1]}
               => adjustment = <<0, base_interest_rate, 0>>
          /\ Selected = Spike
               => adjustment = <<-500, base_interest_rate + 200, 0>>
          /\ Selected = Drop
               => adjustment = <<300, IF base_interest_rate - 100 < 50
                                      THEN 50
                                      ELSE base_interest_rate - 100, 0>>
          /\ Selected = Structural
               => adjustment = <<0, base_interest_rate, Pence(50000)>>
          /\ risk_interest_rate >= 50

\* a rate drop from a base rate under 1.5% has been floored at 0.5%
C2_Witness ==
    /\ ScenarioApplied
    /\ Selected = Drop
    /\ base_interest_rate < 150
    /\ risk_interest_rate = 50

\* C6, in every state of the loop and after it: the principal is not
\* negative, the last period's interest and principal parts add up to the
\* payment, and the interest paid has not passed the scheduled payments
C6_LoopState ==
    AmortStarted =>
      /\ principal_remaining >= 0
      /\ period >= 1 => interest_month + principal_payment = monthly_payment
      /\ total_interest_paid <= monthly_payment * months

\* C6, over every step of the loop: the principal does not increase and
\* the interest paid does not decrease
C6_LoopStep ==
    pc = "amort_loop" =>
      /\ principal_remaining' <= principal_remaining
      /\ total_interest_paid' >= total_interest_paid

\* C6: the amortization invariants hold in every state and over every
\* period of the loop
C6_Amortization == [](C6_LoopState) /\ [][C6_LoopStep]_vars

\* the loop is two periods in, with interest paid and principal repaid
C6_Witness ==
    /\ pc = "amort_loop"
    /\ period >= 2
    /\ total_interest_paid > 0
    /\ 0 < principal_remaining /\ principal_remaining < loan_amount

\* C7: the loop runs at most min(sale_year, term_years) * 12 periods and
\* not past payoff; at the sale the principal is exactly 0 when the sale
\* is at or after the end of the term, positive when it is earlier and
\* there is a loan, and with no loan interest and principal are both 0
C7_TerminationAndPayoff ==
    /\ AmortStarted =>
         /\ period <= Min(sale_year * 12, term_years * 12)
         /\ (pc = "amort_loop" /\ period > 0) => principal_remaining > 0
    /\ AmortEnded =>
         /\ sale_year >= term_years => principal_remaining = 0
         /\ (sale_year < term_years /\ loan_amount > 0)
              => principal_remaining > 0
         /\ loan_amount = 0
              => (total_interest_paid = 0 /\ principal_remaining = 0)

\* the largest residue this arithmetic leaves at the end of a term
ResidueLimit == Pence(10)

\* C7 without the exact 0: what is left at the end of the term is the
\* rounding residue of the arithmetic, and everything else is as stated
C7_UpToRounding ==
    /\ AmortStarted =>
         /\ period <= Min(sale_year * 12, term_years * 12)
         /\ (pc = "amort_loop" /\ period > 0) => principal_remaining > 0
    /\ AmortEnded =>
         /\ sale_year >= term_years
              => (0 <= principal_remaining
                  /\ principal_remaining < ResidueLimit)
         /\ (sale_year < term_years /\ loan_amount > 0)
              => principal_remaining > 0
         /\ loan_amount = 0
              => (total_interest_paid = 0 /\ principal_remaining = 0)

\* the count the claim gives: k with 5k < sale_year <= 5k + 5
ClaimedRemortgages ==
    CHOOSE k \in 0..sale_year : 5 * k < sale_year /\ sale_year <= 5 * k + 5

C4_NoRootIsNotApplicable ==
    (IrrDone /\ deposit > 0 /\ gross_proceeds <= 0) => irr_display = "N/A"

\* C3: a run with no deposit ends without an exception, with the IRR
\* shown as "N/A" and everything else computed
C3_ZeroDepositRun ==
    (Halted /\ deposit = 0) =>
      (exception = "none" /\ pc = "done" /\ irr_display = "N/A")

\* the monthly rent in year y: grown once a year from rent_monthly
RECURSIVE RentInYear(_)
RentInYear(y) ==
    IF y = 0 THEN rent_monthly
    ELSE MulF(RentInYear(y - 1), RateScale + PctF(rent_growth))

\* the balance of the claim after m months: each month the difference
\* between the payment and the rent is added, then the sum is compounded
RECURSIVE ClaimedBalance(_)
ClaimedBalance(m) ==
    IF m = 0 THEN 0
    ELSE MulF(ClaimedBalance(m - 1)
                + (monthly_payment - RentInYear((m - 1) \div 12)),
              RateScale + MonthlyF(alt_investment_return))

\* C5: every run ends with renter_net_worth = deposit * (1 + r/100) ^
\* sale_year + B, B the compounded balance of the monthly differences, and
\* with difference = net_cash_from_sale - renter_net_worth
C5_RenterNetWorth ==
    Halted =>
      /\ exception = "none"
      /\ renter_net_worth =
             MulF(deposit, PowF(RateScale + PctF(alt_investment_return),
                                sale_year))
             + ClaimedBalance(sale_year * 12)
      /\ difference = net_cash_from_sale - renter_net_worth
      /\ difference > 0 <=> net_cash_from_sale > renter_net_worth

\* a run that reached the net worth with a balance below zero
C5_SuppliedWitness ==
    /\ pc = "done"
    /\ future_value_cashflow_difference < 0
    /\ deposit > 0
    /\ alt_investment_return > 0

RECURSIVE ClaimedRent(_)
ClaimedRent(years) ==
    IF years = 0 THEN 0
    ELSE ClaimedRent(years - 1) + 12 * RentInYear(years - 1)

\* C8: every run ends with total_rent_paid the sum over the years of 12
\* months at that year's rent, the rent growing once a year; without
\* growth it is rent_monthly * 12 * sale_year and the average is
\* rent_monthly
C8_RentProjection ==
    Halted =>
      /\ exception = "none"
      /\ total_rent_paid = ClaimedRent(sale_year)
      /\ rent_growth = 0 =>
           /\ total_rent_paid = rent_monthly * 12 * sale_year
           /\ average_rent_monthly = rent_monthly

\* a run that charged two or more years of growing rent
C8_SuppliedWitness ==
    /\ pc = "done"
    /\ sale_year >= 2
    /\ rent_growth > 0
    /\ total_rent_paid > rent_monthly * 12 * sale_year

---------------------------------------------------------------------------
(* Properties of calculate_stamp_duty.                                     *)

\* the part of price between lower and upper, taxed at rate percent
BandPart(price, lower, upper, rate) ==
    MulDiv(Max(0, Min(price, upper) - lower), rate, 100)

\* the marginal-band sum of the claim
MarginalBandSum(price) ==
    BandPart(price, 0, Pence(125000), 0)
    + BandPart(price, Pence(125000), Pence(250000), 2)
    + BandPart(price, Pence(250000), Pence(925000), 5)
    + BandPart(price, Pence(925000), Pence(1500000), 10)
    + BandPart(price, Pence(1500000), Max(price, Pence(1500000)), 12)

\* C1: the duty is the marginal-band sum; it is 0 for every price up to
\* 125,000, zero and negative prices included, and 20,000 for 600,000
C1_MarginalBands ==
    call.called =>
      /\ call.tax = MarginalBandSum(call.price)
      /\ call.price <= Pence(125000) => call.tax = 0
      /\ call.price = Pence(600000) => call.tax = Pence(20000)

\* the duty on 600,000 was computed, after a call with a negative price
C1_Witness ==
    /\ call.called
    /\ call.price = Pence(600000)
    /\ call.tax = Pence(20000)
    /\ last_call.called
    /\ last_call.price < 0
    /\ last_call.tax = 0

\* C9: of two calls, the one with the higher price has no lower duty
C9_Monotone ==
    (call.called /\ last_call.called) =>
      /\ last_call.price <= call.price => last_call.tax <= call.tax
      /\ call.price <= last_call.price => call.tax <= last_call.tax

\* two calls a pound apart on either side of the 925,000 boundary, the
\* duty higher above it
C9_Witness ==
    /\ call.called /\ last_call.called
    /\ last_call.price = Pence(925000) - 1
    /\ call.price = Pence(925001)
    /\ last_call.tax < call.tax


=============================================================================
